---- MODULE Spec2Model ----
(***************************************************************************)
(* WakaTerm-NG: the command ignore filter (ignore_filter.py) and the       *)
(* command tracker that is expected to consult it (wakaterm.py).           *)
(*                                                                         *)
(* Text is modelled as a sequence of one-character strings, so that the    *)
(* file content, the pattern lines, the regular-expression source and the  *)
(* commands are what the Python code manipulates, character by character.  *)
(***************************************************************************)
EXTENDS Integers, Sequences, FiniteSets, TLC

(***************************************************************************)
(* Characters and str helpers                                              *)
(***************************************************************************)
NL == "\n"
BS == "\\"

\* str.isspace() / the regex class \s, on the characters that occur here
IsSpace(c) == c \in {" ", "\n", "\t"}

RECURSIVE LStrip(_)
LStrip(s) ==
  IF s = <<>> THEN s
  ELSE IF IsSpace(Head(s)) THEN LStrip(Tail(s)) ELSE s

RECURSIVE RStrip(_)
RStrip(s) ==
  IF s = <<>> THEN s
  ELSE IF IsSpace(s[Len(s)]) THEN RStrip(SubSeq(s, 1, Len(s) - 1)) ELSE s

\* str.strip()
Strip(s) == RStrip(LStrip(s))

\* str.startswith(c) for a one-character prefix
StartsWith(s, c) == Len(s) >= 1 /\ s[1] = c

\* str.split()[0] of a string that is not blank
RECURSIVE TakeToken(_)
TakeToken(s) ==
  IF s = <<>> \/ IsSpace(Head(s)) THEN <<>>
  ELSE <<Head(s)>> \o TakeToken(Tail(s))

FirstToken(s) == TakeToken(LStrip(s))

\* str.replace(old, new): leftmost, non-overlapping
RECURSIVE Replace(_, _, _)
Replace(s, old, new) ==
  IF Len(s) < Len(old) THEN s
  ELSE IF SubSeq(s, 1, Len(old)) = old
       THEN new \o Replace(SubSeq(s, Len(old) + 1, Len(s)), old, new)
       ELSE <<Head(s)>> \o Replace(Tail(s), old, new)

\* ''.join(seq of strings)
RECURSIVE Concat(_)
Concat(ss) == IF ss = <<>> THEN <<>> ELSE Head(ss) \o Concat(Tail(ss))

\* the lines of a text as file iteration / readlines() yields them: each
\* line keeps its terminating newline, the last one may lack it
ReadLines(s) ==
  LET ends == {i \in 1..Len(s) : s[i] = NL}
              \cup (IF Len(s) > 0 /\ s[Len(s)] # NL THEN {Len(s)} ELSE {})
      endOf(k) == CHOOSE e \in ends : Cardinality({x \in ends : x < e}) = k - 1
      startOf(k) == IF k = 1 THEN 1 ELSE endOf(k - 1) + 1
  IN [k \in 1..Cardinality(ends) |-> SubSeq(s, startOf(k), endOf(k))]

\* re.IGNORECASE folding, on the upper-case letters that occur here
Lower(c) ==
  CASE c = "C" -> "c"
    [] c = "D" -> "d"
    [] c = "F" -> "f"
    [] c = "O" -> "o"
    [] OTHER -> c

\* str.lower()
LowerText(s) == [i \in 1..Len(s) |-> Lower(s[i])]

(***************************************************************************)
(* _pattern_to_regex                                                       *)
(***************************************************************************)
\* re.escape: the characters of sre's _special_chars_map
ReSpecialChars ==
  {"(", ")", "[", "]", "{", "}", "?", "*", "+", "-", "|", "^", "$", BS,
   ".", "&", "~", "#", " ", "\t", "\n"}

RECURSIVE ReEscape(_)
ReEscape(s) ==
  IF s = <<>> THEN <<>>
  ELSE (IF Head(s) \in ReSpecialChars THEN <<BS, Head(s)>> ELSE <<Head(s)>>)
       \o ReEscape(Tail(s))

\* the longest run of characters other than "]" at the start of s
RECURSIVE RunNotClose(_)
RunNotClose(s) ==
  IF s = <<>> \/ Head(s) = "]" THEN <<>>
  ELSE <<Head(s)>> \o RunNotClose(Tail(s))

\* re.sub(r'\\?\[([^\]]+)\\?\]', r'[\1]', s).  At a position the regex
\* takes an optional backslash, "[", the longest non-empty run of
\* characters other than "]" (which swallows a backslash that precedes the
\* "]"), and the "]"; the match is replaced by "[" run "]".
RECURSIVE SubCharClass(_)
SubCharClass(s) ==
  IF s = <<>> THEN <<>>
  ELSE LET o    == IF Head(s) = BS THEN 1 ELSE 0
           open == Len(s) >= o + 1 /\ s[o + 1] = "["
           run  == IF open THEN RunNotClose(SubSeq(s, o + 2, Len(s))) ELSE <<>>
           stop == o + 1 + Len(run) + 1
           hit  == open /\ Len(run) >= 1 /\ Len(s) >= stop /\ s[stop] = "]"
       IN IF hit
          THEN <<"[">> \o run \o <<"]">>
               \o SubCharClass(SubSeq(s, stop + 1, Len(s)))
          ELSE <<Head(s)>> \o SubCharClass(Tail(s))

\* variant: the run that "*" stands for must not be empty ([^\s][^\s]*)
StarRegexNonEmpty ==
  <<"[", "^", BS, "s", "]", "[", "^", BS, "s", "]", "*">>

StarRegex == <<"[", "^", BS, "s", "]", "*">>
QMarkRegex == <<"[", "^", BS, "s", "]">>
AnchorHead == <<"^">>
AnchorTail == <<"(", "?", ":", BS, "s", "|", "$", ")">>

PatternToRegex(pattern) ==
  LET e1 == ReEscape(pattern)
      e2 == Replace(e1, <<BS, "*">>, StarRegex)
      e3 == Replace(e2, <<BS, "?">>, QMarkRegex)
      e4 == SubCharClass(e3)
  IN AnchorHead \o e4 \o AnchorTail

(***************************************************************************)
(* re.compile and Pattern.match, for the regular expressions that          *)
(* _pattern_to_regex produces                                              *)
(***************************************************************************)
\* A parse is [ok, atoms]; ok is "ok", "error" (re.error) or "unsupported"
\* (a construct this model of sre does not cover).
\* An atom is [items, ws, neg, star]: the characters it accepts, whether it
\* accepts \s, whether it is a negated set, whether it is repeated by "*".
LitAtom(c) == [items |-> {c}, ws |-> FALSE, neg |-> FALSE, star |-> FALSE]
WsAtom == [items |-> {}, ws |-> TRUE, neg |-> FALSE, star |-> FALSE]
ReError == [ok |-> "error", atoms |-> <<>>]
ReUnsupported == [ok |-> "unsupported", atoms |-> <<>>]

\* the body of a character set, after "[" and an optional "^": returns
\* [closed, items, ws, rest]; a "]" in first position is a literal
RECURSIVE ParseSetBody(_, _, _, _)
ParseSetBody(s, items, ws, first) ==
  IF s = <<>> THEN [closed |-> FALSE, items |-> items, ws |-> ws, rest |-> <<>>]
  ELSE IF Head(s) = "]" /\ ~first
       THEN [closed |-> TRUE, items |-> items, ws |-> ws, rest |-> Tail(s)]
  ELSE IF Head(s) = BS
       THEN IF Len(s) < 2
            THEN [closed |-> FALSE, items |-> items, ws |-> ws, rest |-> <<>>]
            ELSE IF s[2] = "s"
                 THEN ParseSetBody(SubSeq(s, 3, Len(s)), items, TRUE, FALSE)
                 ELSE ParseSetBody(SubSeq(s, 3, Len(s)), items \cup {s[2]}, ws, FALSE)
  ELSE ParseSetBody(Tail(s), items \cup {Head(s)}, ws, FALSE)

\* characters that have a meaning of their own outside a set
ReMeta == {"(", ")", "{", "}", "?", "+", "|", "^", "$", "."}

RECURSIVE ParseRe(_, _)
ParseRe(s, acc) ==
  IF s = <<>> THEN [ok |-> "ok", atoms |-> acc]
  ELSE IF Head(s) = "*"
       THEN IF acc = <<>> \/ acc[Len(acc)].star
            THEN ReError      \* nothing to repeat / multiple repeat
            ELSE ParseRe(Tail(s),
                   [acc EXCEPT ![Len(acc)] = [@ EXCEPT !.star = TRUE]])
  ELSE IF Head(s) = BS
       THEN IF Len(s) < 2 THEN ReError
            ELSE IF s[2] = "s"
                 THEN ParseRe(SubSeq(s, 3, Len(s)), Append(acc, WsAtom))
                 ELSE IF s[2] \in ReSpecialChars
                      THEN ParseRe(SubSeq(s, 3, Len(s)), Append(acc, LitAtom(s[2])))
                      ELSE ReUnsupported
  ELSE IF Head(s) = "["
       THEN LET neg  == Len(s) >= 2 /\ s[2] = "^"
                body == ParseSetBody(SubSeq(s, IF neg THEN 3 ELSE 2, Len(s)),
                                     {}, FALSE, TRUE)
            IN IF ~body.closed THEN ReError   \* unterminated character set
               ELSE ParseRe(body.rest,
                      Append(acc, [items |-> body.items, ws |-> body.ws,
                                   neg |-> neg, star |-> FALSE]))
  ELSE IF Head(s) \in ReMeta THEN ReUnsupported
  ELSE ParseRe(Tail(s), Append(acc, LitAtom(Head(s))))

\* re.compile(regex, re.IGNORECASE) of a regex built by PatternToRegex.
\* The text between "^" and the first character of "(?:\s|$)" is parsed;
\* a set still open at that point swallows the tail, which has no "]", and
\* the compilation fails with "unterminated character set".
ReCompile(regex) ==
  ParseRe(SubSeq(regex, Len(AnchorHead) + 1, Len(regex) - Len(AnchorTail)), <<>>)

AtomAccepts(a, c) ==
  LET m == (\E i \in a.items : Lower(i) = Lower(c)) \/ (a.ws /\ IsSpace(c))
  IN IF a.neg THEN ~m ELSE m

\* variant: the pattern must match the whole command ("$" without "\s|")
RECURSIVE MatchFromWhole(_, _, _, _)
MatchFromWhole(atoms, i, s, j) ==
  IF i > Len(atoms) THEN j = Len(s) + 1
  ELSE IF atoms[i].star
       THEN MatchFromWhole(atoms, i + 1, s, j)
            \/ (j <= Len(s) /\ AtomAccepts(atoms[i], s[j])
                /\ MatchFromWhole(atoms, i, s, j + 1))
       ELSE j <= Len(s) /\ AtomAccepts(atoms[i], s[j])
            /\ MatchFromWhole(atoms, i + 1, s, j + 1)

\* whether atoms[i..] followed by (?:\s|$) match s from position j
RECURSIVE MatchFrom(_, _, _, _)
MatchFrom(atoms, i, s, j) ==
  IF i > Len(atoms) THEN j = Len(s) + 1 \/ (j <= Len(s) /\ IsSpace(s[j]))
  ELSE IF atoms[i].star
       THEN MatchFrom(atoms, i + 1, s, j)
            \/ (j <= Len(s) /\ AtomAccepts(atoms[i], s[j])
                /\ MatchFrom(atoms, i, s, j + 1))
       ELSE j <= Len(s) /\ AtomAccepts(atoms[i], s[j])
            /\ MatchFrom(atoms, i + 1, s, j + 1)

\* variant: the regex lacks the trailing (?:\s|$), so that the pattern
\* matches whenever it matches the beginning of the command
ReMatchNoBoundary(compiled, command) ==
  \E k \in 0..Len(command) :
     MatchFromWhole(compiled, 1, SubSeq(command, 1, k), 1)

\* compiled.match(command): a compiled pattern is the list of its atoms
ReMatch(compiled, command) == MatchFrom(compiled, 1, command, 1)

(***************************************************************************)
(* The pattern file and the engine                                         *)
(***************************************************************************)
\* The pattern file as the operating system presents it:
\*   exists     Path.exists()
\*   content    the text of the file
\*   mtime      stat().st_mtime
\*   readable   open for 'r' succeeds (no PermissionError)
\*   writable   mkdir of the parent and open for 'a' / 'w' succeed
NoFile(w) ==
  [exists |-> FALSE, content |-> <<>>, mtime |-> 0, readable |-> TRUE,
   writable |-> w]

\* a byte sequence that is not valid UTF-8, as one element of the content
BadByte == "\\x80"

\* reading the file raises (PermissionError or UnicodeDecodeError)
ReadRaises(fs) ==
  ~fs.readable \/ (\E i \in 1..Len(fs.content) : fs.content[i] = BadByte)

\* self._last_mtime = None
NoMtime == -1

\* variant: every entry of the default file is commented out
DefaultLinesInert ==
  << <<"#", " ", "W", "a", "k", "a", "T", "e", "r", "m">>,
     <<>>,
     <<"#", " ", "c", "d">>,
     <<"#", " ", "t", "e", "s", "t", "*">>,
     <<"#", " ", "!", "p", "y", "t", "h", "o", "n">> >>

\* the text written by _create_default_ignore_file: every line that is not
\* a comment is kept, the prose of the comment lines is abridged to one
\* line of each kind (title, commented-out pattern, commented-out pattern
\* with an argument, commented-out negation)
DefaultLines ==
  << <<"#", " ", "W", "a", "k", "a", "T", "e", "r", "m">>,
     <<>>,
     <<"#", " ", "S", "y", "s", "t", "e", "m">>,
     <<"c", "d">>,
     <<"p", "w", "d">>,
     <<"l", "s">>,
     <<"l", "l">>,
     <<"l", "a">>,
     <<"c", "l", "e", "a", "r">>,
     <<"e", "x", "i", "t">>,
     <<"l", "o", "g", "o", "u", "t">>,
     <<"h", "i", "s", "t", "o", "r", "y">>,
     <<>>,
     <<"#", " ", "t", "r", "e", "e">>,
     <<>>,
     <<"t", "e", "s", "t", "*">>,
     <<"t", "m", "p", "*">>,
     <<>>,
     <<"#", " ", "s", "s", "h", "*">>,
     <<"#", " ", "g", "i", "t", " ", "s", "t", "a", "t", "u", "s">>,
     <<>>,
     <<"d", "e", "b", "u", "g", "_", "*">>,
     <<>>,
     <<"#", " ", "!", "p", "y", "t", "h", "o", "n">> >>

DefaultContent ==
  Concat([i \in 1..Len(DefaultLines) |-> Append(DefaultLines[i], NL)])

\* os.environ.get('WAKATERM_DEBUG', '').lower() in ('1', 'true', 'yes', 'on');
\* env is the value of the variable, the empty text when it is not set
DebugEnabled(env) ==
  LowerText(env) \in {<<"1">>, <<"t", "r", "u", "e">>, <<"y", "e", "s">>,
                      <<"o", "n">>}

\* "if <debug>: print(msg, file=os.sys.stderr)": the lines that reach the
\* error stream
DebugPrint(env, msg) == IF DebugEnabled(env) THEN <<msg>> ELSE <<>>

\* __init__, before the first load
NewEngine ==
  [patterns |-> <<>>, negation_patterns |-> <<>>,
   compiled |-> <<>>, compiled_negation |-> <<>>,
   last_mtime |-> NoMtime]

\* _create_default_ignore_file: mkdir, open 'w', write; every exception is
\* absorbed.  The file gets a new modification time.
CreateDefaultIgnoreFile(fs, clock, env) ==
  IF fs.writable
  THEN [fs |-> [exists |-> TRUE, content |-> DefaultContent,
                mtime |-> clock + 1, readable |-> TRUE, writable |-> TRUE],
        clock |-> clock + 1, stderr |-> <<>>]
  ELSE [fs |-> fs, clock |-> clock,
        stderr |-> DebugPrint(env, "Could not create default ignore file")]

\* variant: the test "if pattern" is missing, a bare "!" is recorded as an
\* empty negation pattern
RECURSIVE ParseLinesKeepsBareBang(_, _, _)
ParseLinesKeepsBareBang(lines, patterns, negs) ==
  IF lines = <<>> THEN [patterns |-> patterns, negation_patterns |-> negs]
  ELSE LET line == Strip(Head(lines))
       IN IF line = <<>> \/ StartsWith(line, "#")
          THEN ParseLinesKeepsBareBang(Tail(lines), patterns, negs)
          ELSE IF StartsWith(line, "!")
               THEN ParseLinesKeepsBareBang(Tail(lines), patterns,
                                            Append(negs, Strip(Tail(line))))
               ELSE ParseLinesKeepsBareBang(Tail(lines), Append(patterns, line),
                                            negs)

\* the loop of _load_patterns over the lines of the file
RECURSIVE ParseLines(_, _, _)
ParseLines(lines, patterns, negs) ==
  IF lines = <<>> THEN [patterns |-> patterns, negation_patterns |-> negs]
  ELSE LET line == Strip(Head(lines))
       IN IF line = <<>> \/ StartsWith(line, "#")
          THEN ParseLines(Tail(lines), patterns, negs)
          ELSE IF StartsWith(line, "!")
               THEN LET pattern == Strip(Tail(line))
                    IN IF pattern # <<>>
                       THEN ParseLines(Tail(lines), patterns, Append(negs, pattern))
                       ELSE ParseLines(Tail(lines), patterns, negs)
               ELSE ParseLines(Tail(lines), Append(patterns, line), negs)

ParseFile(content) == ParseLines(ReadLines(content), <<>>, <<>>)

\* variant: the try statement encloses the loop, which ends at the first
\* pattern whose regex raises re.error
RECURSIVE CompileListStopsAtInvalid(_)
CompileListStopsAtInvalid(pats) ==
  IF pats = <<>> THEN <<>>
  ELSE LET c == ReCompile(PatternToRegex(Head(pats)))
       IN IF c.ok = "ok"
          THEN <<c.atoms>> \o CompileListStopsAtInvalid(Tail(pats))
          ELSE <<>>

\* one loop of _compile_patterns: a pattern whose regex raises re.error is
\* skipped
RECURSIVE CompileList(_)
CompileList(pats) ==
  IF pats = <<>> THEN <<>>
  ELSE LET c == ReCompile(PatternToRegex(Head(pats)))
       IN (IF c.ok = "ok" THEN <<c.atoms>> ELSE <<>>)
          \o CompileList(Tail(pats))

\* what one loop of _compile_patterns prints: a line for each pattern that
\* is skipped
RECURSIVE InvalidPatternLines(_, _, _)
InvalidPatternLines(pats, env, msg) ==
  IF pats = <<>> THEN <<>>
  ELSE (IF ReCompile(PatternToRegex(Head(pats))).ok = "ok" THEN <<>>
        ELSE DebugPrint(env, msg))
       \o InvalidPatternLines(Tail(pats), env, msg)

\* what _compile_patterns prints
CompileStderr(eng, env) ==
  InvalidPatternLines(eng.patterns, env, "Invalid ignore pattern")
  \o InvalidPatternLines(eng.negation_patterns, env, "Invalid negation pattern")

\* variant: the second loop appends to the list of the first
CompilePatternsOneList(eng) ==
  [eng EXCEPT !.compiled = CompileList(eng.patterns)
                             \o CompileList(eng.negation_patterns),
              !.compiled_negation = <<>>]

CompilePatterns(eng) ==
  [eng EXCEPT !.compiled = CompileList(eng.patterns),
              !.compiled_negation = CompileList(eng.negation_patterns)]

\* variant: once loaded, the file is never read again
MtimeUnchangedOnceLoaded(fs, eng) == eng.last_mtime # NoMtime

\* "self._last_mtime is not None and current_mtime == self._last_mtime"
MtimeUnchanged(fs, eng) ==
  eng.last_mtime # NoMtime /\ fs.mtime = eng.last_mtime

\* variant: the except clause forgets the compiled lists
OnLoadErrorKeepCompiled(eng, env) ==
  [eng |-> [eng EXCEPT !.patterns = <<>>, !.negation_patterns = <<>>],
   stderr |-> DebugPrint(env, "Error loading ignore patterns")]

\* variant: in debug mode the except clause only reports the error
OnLoadErrorDebugOnlyPrints(eng, env) ==
  IF DebugEnabled(env)
  THEN [eng |-> eng,
        stderr |-> DebugPrint(env, "Error loading ignore patterns")]
  ELSE [eng |-> [eng EXCEPT !.patterns = <<>>, !.negation_patterns = <<>>,
                            !.compiled = <<>>, !.compiled_negation = <<>>],
        stderr |-> <<>>]

\* the except clause of _load_patterns
OnLoadError(eng, env) ==
  [eng |-> [eng EXCEPT !.patterns = <<>>, !.negation_patterns = <<>>,
                       !.compiled = <<>>, !.compiled_negation = <<>>],
   stderr |-> DebugPrint(env, "Error loading ignore patterns")]

\* _load_patterns.  Returns the file, the engine, the clock, and what the
\* call did: created (the default file was written), failed (the except
\* clause ran), parsed (the file was read), raised (an exception left the
\* method), stderr (the lines it printed to the error stream).
LoadPatterns(fs, eng, clock, env) ==
  IF ~fs.exists
  THEN LET c == CreateDefaultIgnoreFile(fs, clock, env)
       IN [fs |-> c.fs, eng |-> eng, clock |-> c.clock, created |-> c.fs.exists,
           failed |-> FALSE, parsed |-> FALSE, raised |-> FALSE,
           stderr |-> c.stderr]
  ELSE IF MtimeUnchanged(fs, eng)
  THEN [fs |-> fs, eng |-> eng, clock |-> clock, created |-> FALSE,
        failed |-> FALSE, parsed |-> FALSE, raised |-> FALSE,
        stderr |-> <<>>]
  ELSE LET e1 == [eng EXCEPT !.last_mtime = fs.mtime]
       IN IF ReadRaises(fs)
          THEN LET x == OnLoadError(e1, env)
               IN [fs |-> fs, eng |-> x.eng, clock |-> clock,
                   created |-> FALSE,
                   failed |-> TRUE, parsed |-> FALSE, raised |-> FALSE,
                   stderr |-> x.stderr]
          ELSE LET p == ParseFile(fs.content)
                   e2 == [e1 EXCEPT !.patterns = p.patterns,
                                    !.negation_patterns = p.negation_patterns]
               IN [fs |-> fs,
                   eng |-> CompilePatterns(e2),
                   clock |-> clock, created |-> FALSE,
                   failed |-> FALSE, parsed |-> TRUE, raised |-> FALSE,
                   stderr |-> CompileStderr(e2, env)]

\* variant: only the first pattern of each list is tried
DecideFirstOnly(compiled, compiled_negation, command) ==
  LET ignored == compiled # <<>> /\ ReMatch(compiled[1], command)
  IN IF ignored /\ compiled_negation # <<>>
        /\ ReMatch(compiled_negation[1], command)
     THEN FALSE
     ELSE ignored

\* variant: the negation patterns are not consulted
DecideWithoutNegation(compiled, compiled_negation, command) ==
  \E i \in 1..Len(compiled) : ReMatch(compiled[i], command)

\* variant: the matches are counted, and a command is ignored when more
\* ignore patterns than negation patterns match it
DecideByCount(compiled, compiled_negation, command) ==
  Cardinality({i \in 1..Len(compiled) : ReMatch(compiled[i], command)})
    > Cardinality({i \in 1..Len(compiled_negation) :
                     ReMatch(compiled_negation[i], command)})

\* variant: a match of a negation pattern is taken for a match of an ignore
\* pattern
DecideNegationInverted(compiled, compiled_negation, command) ==
  \/ \E i \in 1..Len(compiled) : ReMatch(compiled[i], command)
  \/ \E i \in 1..Len(compiled_negation) :
        ReMatch(compiled_negation[i], command)

\* the decision of should_ignore on the compiled patterns
Decide(compiled, compiled_negation, command) ==
  LET ignored == \E i \in 1..Len(compiled) : ReMatch(compiled[i], command)
  IN IF ignored /\ (\E i \in 1..Len(compiled_negation) :
                      ReMatch(compiled_negation[i], command))
     THEN FALSE
     ELSE ignored

\* variant: the test for a blank command is missing
ShouldIgnoreOpNoBlankTest(fs, eng, clock, command, env) ==
  LET l == LoadPatterns(fs, eng, clock, env)
  IN [fs |-> l.fs, eng |-> l.eng, clock |-> l.clock,
      result |-> Decide(l.eng.compiled, l.eng.compiled_negation,
                        Strip(command)),
      created |-> l.created,
      failed |-> l.failed, parsed |-> l.parsed, raised |-> l.raised,
      stderr |-> l.stderr]

\* should_ignore
ShouldIgnoreOp(fs, eng, clock, command, env) ==
  IF Strip(command) = <<>>
  THEN [fs |-> fs, eng |-> eng, clock |-> clock, result |-> TRUE,
        created |-> FALSE,
        failed |-> FALSE, parsed |-> FALSE, raised |-> FALSE,
        stderr |-> <<>>]
  ELSE LET l == LoadPatterns(fs, eng, clock, env)
       IN [fs |-> l.fs, eng |-> l.eng, clock |-> l.clock,
           result |-> Decide(l.eng.compiled, l.eng.compiled_negation,
                             Strip(command)),
           created |-> l.created,
           failed |-> l.failed, parsed |-> l.parsed, raised |-> l.raised,
           stderr |-> l.stderr]

\* variant: no except clause, the error of mkdir / open leaves the method
AddPatternOpRaising(fs, eng, clock, pattern, env) ==
  IF ~fs.writable
  THEN [fs |-> fs, eng |-> eng, clock |-> clock, created |-> FALSE,
        failed |-> FALSE, parsed |-> FALSE, raised |-> TRUE,
        stderr |-> <<>>]
  ELSE LoadPatterns([exists |-> TRUE,
                     content |-> fs.content \o <<NL>> \o pattern \o <<NL>>,
                     mtime |-> clock + 1, readable |-> fs.readable,
                     writable |-> TRUE], eng, clock + 1, env)

\* variant: the line is written without the leading newline
AddPatternOpNoLeadingNewline(fs, eng, clock, pattern, env) ==
  IF ~fs.writable
  THEN [fs |-> fs, eng |-> eng, clock |-> clock, created |-> FALSE,
        failed |-> FALSE, parsed |-> FALSE, raised |-> FALSE,
        stderr |-> DebugPrint(env, "Could not add pattern")]
  ELSE LoadPatterns([exists |-> TRUE,
                     content |-> fs.content \o pattern \o <<NL>>,
                     mtime |-> clock + 1, readable |-> fs.readable,
                     writable |-> TRUE], eng, clock + 1, env)

\* variant: the file is opened with 'w', which truncates it
AddPatternOpTruncates(fs, eng, clock, pattern, env) ==
  IF ~fs.writable
  THEN [fs |-> fs, eng |-> eng, clock |-> clock, created |-> FALSE,
        failed |-> FALSE, parsed |-> FALSE, raised |-> FALSE,
        stderr |-> DebugPrint(env, "Could not add pattern")]
  ELSE LoadPatterns([exists |-> TRUE,
                     content |-> <<NL>> \o pattern \o <<NL>>,
                     mtime |-> clock + 1, readable |-> fs.readable,
                     writable |-> TRUE], eng, clock + 1, env)

\* add_pattern: mkdir and open 'a' raise when the file cannot be written,
\* and the except clause absorbs it
AddPatternOp(fs, eng, clock, pattern, env) ==
  IF ~fs.writable
  THEN [fs |-> fs, eng |-> eng, clock |-> clock, created |-> FALSE,
        failed |-> FALSE, parsed |-> FALSE, raised |-> FALSE,
        stderr |-> DebugPrint(env, "Could not add pattern")]
  ELSE LET f1 == [exists |-> TRUE,
                  content |-> fs.content \o <<NL>> \o pattern \o <<NL>>,
                  mtime |-> clock + 1,
                  readable |-> fs.readable,
                  writable |-> TRUE]
       IN LoadPatterns(f1, eng, clock + 1, env)

\* variant: the loop stops removing after the first matching line
RECURSIVE KeptLinesFirstOnly(_, _)
KeptLinesFirstOnly(lines, pattern) ==
  IF lines = <<>> THEN <<>>
  ELSE LET stripped_line == Strip(Head(lines))
       IN IF stripped_line # pattern /\ stripped_line # <<"!">> \o pattern
          THEN <<Head(lines)>> \o KeptLinesFirstOnly(Tail(lines), pattern)
          ELSE Tail(lines)

\* the loop of remove_pattern: the lines that are kept
RECURSIVE KeptLines(_, _)
KeptLines(lines, pattern) ==
  IF lines = <<>> THEN <<>>
  ELSE LET stripped_line == Strip(Head(lines))
       IN (IF stripped_line # pattern /\ stripped_line # <<"!">> \o pattern
           THEN <<Head(lines)>> ELSE <<>>)
          \o KeptLines(Tail(lines), pattern)

\* variant: the reload is not under "if found", and runs before the test
\* for a missing file
RemovePatternOpReloadsAnyway(fs, eng, clock, pattern, env) ==
  LET found == /\ fs.exists /\ ~ReadRaises(fs)
               /\ Len(KeptLines(ReadLines(fs.content), pattern))
                    # Len(ReadLines(fs.content))
               /\ fs.writable
      f1 == IF found
            THEN [fs EXCEPT
                    !.content = Concat(KeptLines(ReadLines(fs.content), pattern)),
                    !.mtime = clock + 1]
            ELSE fs
      l == LoadPatterns(f1, eng, IF found THEN clock + 1 ELSE clock, env)
  IN [fs |-> l.fs, eng |-> l.eng, clock |-> l.clock,
      result |-> found, created |-> l.created, failed |-> l.failed,
      parsed |-> l.parsed, raised |-> l.raised, stderr |-> l.stderr]

\* remove_pattern
RemovePatternOp(fs, eng, clock, pattern, env) ==
  LET same == [fs |-> fs, eng |-> eng, clock |-> clock, result |-> FALSE,
               created |-> FALSE,
               failed |-> FALSE, parsed |-> FALSE, raised |-> FALSE,
               stderr |-> <<>>]
      \* the except clause
      caught == [same EXCEPT
                   !.stderr = DebugPrint(env, "Could not remove pattern")]
  IN IF ~fs.exists THEN same
     ELSE IF ReadRaises(fs) THEN caught              \* readlines raises
     ELSE LET lines == ReadLines(fs.content)
              new_lines == KeptLines(lines, pattern)
              found == Len(new_lines) # Len(lines)
          IN IF ~found THEN same
             ELSE IF ~fs.writable THEN caught        \* open 'w' raises
             ELSE LET f1 == [fs EXCEPT !.content = Concat(new_lines),
                                       !.mtime = clock + 1]
                      l == LoadPatterns(f1, eng, clock + 1, env)
                  IN [fs |-> l.fs, eng |-> l.eng, clock |-> l.clock,
                      result |-> TRUE, created |-> l.created,
                      failed |-> l.failed,
                      parsed |-> l.parsed, raised |-> l.raised,
                      stderr |-> l.stderr]

\* variant: the negation patterns are listed without their "!"
NegatedBare(negs) == negs

RECURSIVE Negated(_)
Negated(negs) ==
  IF negs = <<>> THEN <<>> ELSE <<(<<"!">> \o Head(negs))>> \o Negated(Tail(negs))

\* list_patterns
ListPatternsOp(fs, eng, clock, env) ==
  LET l == LoadPatterns(fs, eng, clock, env)
  IN [fs |-> l.fs, eng |-> l.eng, clock |-> l.clock,
      list |-> l.eng.patterns \o Negated(l.eng.negation_patterns),
      created |-> l.created,
      failed |-> l.failed, parsed |-> l.parsed, raised |-> l.raised,
      stderr |-> l.stderr]

\* should_ignore_command: a new engine is constructed and queried
ShouldIgnoreCommandOp(fs, clock, command, env) ==
  LET c == LoadPatterns(fs, NewEngine, clock, env)
      r == ShouldIgnoreOp(c.fs, c.eng, c.clock, command, env)
  IN [r EXCEPT !.created = c.created \/ r.created,
               !.failed = c.failed \/ r.failed,
               !.parsed = c.parsed \/ r.parsed,
               !.raised = c.raised \/ r.raised,
               !.stderr = c.stderr \o r.stderr]

(***************************************************************************)
(* TerminalTracker.track_command (wakaterm.py)                             *)
(***************************************************************************)
\* cwd_ok: the cwd argument is given, or os.getcwd() succeeds (the working
\*   directory still exists); getcwd is called before the try statement
\* log_ok: the entry is built and the append to the day's log file succeeds
\* cli: what becomes of the relay: "unavailable" (wakatime-cli is missing or
\*   not configured), "started" (the process is started), "fails" (starting
\*   or running it raises, which _send_to_wakatime absorbs)
\* A relay records how many entries the log held when wakatime-cli was
\* started.
RelayOutcomes == {"unavailable", "started", "fails"}

\* track_command
TrackCommandOp(lg, rl, command, cwd_ok, log_ok, cli) ==
  IF Strip(command) = <<>> THEN [log |-> lg, relays |-> rl, raised |-> FALSE]
  ELSE IF ~cwd_ok THEN [log |-> lg, relays |-> rl, raised |-> TRUE]
  ELSE IF ~log_ok THEN [log |-> lg, relays |-> rl, raised |-> FALSE]
  ELSE LET lg1 == Append(lg, command)
       IN [log |-> lg1,
           relays |-> IF cli = "started"
                      THEN Append(rl, [command |-> command, logged |-> Len(lg1)])
                      ELSE rl,
           raised |-> FALSE]

(***************************************************************************)
(* track_command of the minimal tracker (wakaterm_minimal.py)              *)
(***************************************************************************)
\* ' '.join(args)
RECURSIVE Join(_)
Join(args) ==
  IF args = <<>> THEN <<>>
  ELSE IF Len(args) = 1 THEN Head(args)
  ELSE Head(args) \o <<" ">> \o Join(Tail(args))

\* "x in sys.argv"
InArgs(x, args) == \E i \in 1..Len(args) : args[i] = x

\* a.startswith('--')
IsOption(a) == Len(a) >= 2 /\ a[1] = "-" /\ a[2] = "-"

OptHelp == <<"-", "-", "h", "e", "l", "p">>
OptDebug == <<"-", "-", "d", "e", "b", "u", "g">>

\* the first tokens that the minimal tracker does not log
MinimalSkip ==
  { <<"l", "s">>, <<"c", "d">>, <<"p", "w", "d">>, <<"c", "l", "e", "a", "r">>,
    <<"e", "x", "i", "t">>, <<"h", "i", "s", "t", "o", "r", "y">> }

\* track_command of wakaterm_minimal.py; args is sys.argv[1:].
\* "not command or command.strip().split()[0] in (...)" stands before the
\* try statement: split() of a blank command is the empty list, and [0]
\* raises IndexError.  Inside the try statement every exception is
\* absorbed.  project_ok: the working directory is "/" or lies under a
\* directory holding .git or package.json; otherwise the while loop ends
\* by its second break, the else branch is skipped and "project" is read
\* unbound (NameError, absorbed, nothing logged).  log_ok: the append to
\* the day's log file succeeds.
MinimalTrackOp(lg, rl, args, project_ok, log_ok, cli) ==
  LET same == [log |-> lg, relays |-> rl, raised |-> FALSE, failed |-> FALSE]
      command == Join(SelectSeq(args, LAMBDA a : ~IsOption(a)))
  IN IF Len(args) < 1 \/ InArgs(OptHelp, args) THEN same
     ELSE IF command = <<>> THEN same
     ELSE IF Strip(command) = <<>> THEN [same EXCEPT !.raised = TRUE]
     ELSE IF FirstToken(command) \in MinimalSkip THEN same
     ELSE IF ~project_ok \/ ~log_ok THEN [same EXCEPT !.failed = TRUE]
     ELSE LET lg1 == Append(lg, command)
          IN [log |-> lg1,
              relays |-> IF cli = "started"
                         THEN Append(rl, [command |-> command,
                                          logged |-> Len(lg1)])
                         ELSE rl,
              raised |-> FALSE, failed |-> FALSE]

(***************************************************************************)
(* Inputs and bounds                                                       *)
(***************************************************************************)
\* writes to the pattern file (each gets a new modification time)
MaxWrites == 1
\* entries in the day's log
MaxLog == 2
\* lines of a file that are tried in every order
MaxPermuted == 4

PCd == <<"c", "d">>
PFooStar == <<"f", "o", "o", "*">>
PNotFoo == <<"!", "f", "o", "o">>

\* the arguments of add_pattern and remove_pattern
PatternArgs == {PCd, PFooStar, PNotFoo}

\* the empty text and the text of a comment line, "# cd"
PEmpty == <<>>
PComment == <<"#", " ", "c", "d">>

\* the arguments of remove_pattern when any text is passed
RemoveArgs == PatternArgs \cup {PEmpty, PComment}

CmdCdTmp == <<"c", "d", " ", "/", "t", "m", "p">>
CmdFoo == <<"f", "o", "o">>
CmdTestX == <<"t", "e", "s", "t", "_", "x">>
CmdVim == <<"v", "i", "m">>
CmdBlank == <<" ">>
CmdEmpty == <<>>
CmdCdx == <<"c", "d", "x">>

\* the commands queried and tracked
Commands == {CmdCdTmp, CmdFoo, CmdTestX, CmdVim, CmdBlank, CmdEmpty, CmdCdx}

\* the commands queried in the runs in which every edit changes the
\* modification time
SomeCommands == {CmdCdTmp, CmdBlank}

\* "cd\n!cd\n"
TextCdNotCd == <<"c", "d", NL, "!", "c", "d", NL>>
\* "!foo\nfoo*\ncd\n": the negation line comes first
TextNotFooFirst ==
  <<"!", "f", "o", "o", NL, "f", "o", "o", "*", NL, "c", "d", NL>>
\* "cd\nfoo*\n !cd \n# cd\ncd": the pattern twice, its negation, a comment
\* that names it, no newline at the end
TextDup ==
  <<"c", "d", NL, "f", "o", "o", "*", NL, " ", "!", "c", "d", " ", NL,
    "#", " ", "c", "d", NL, "c", "d">>
\* "cd\n" followed by bytes that are not UTF-8
TextBad == <<"c", "d", NL, BadByte>>

\* "foo*\n[c]d\nvim\n!v[i]m\n": the regular expressions made from [c]d
\* and v[i]m do not compile
TextClass ==
  <<"f", "o", "o", "*", NL, "[", "c", "]", "d", NL, "v", "i", "m", NL,
    "!", "v", "[", "i", "]", "m", NL>>

\* "# cd\n\n!\n! foo\nfoo*\ncd\n": a comment that names a pattern, a blank
\* line, a bare "!", a negation with a blank after its "!", which stands
\* before the ignore lines
TextMixed ==
  <<"#", " ", "c", "d", NL, NL, "!", NL, "!", " ", "f", "o", "o", NL,
    "f", "o", "o", "*", NL, "c", "d", NL>>

\* pattern files with wildcards: "debug_*\n", "a*b\n", "[abc]x\n"
TextDebugStar == <<"d", "e", "b", "u", "g", "_", "*", NL>>
TextAStarB == <<"a", "*", "b", NL>>
TextAbcX == <<"[", "a", "b", "c", "]", "x", NL>>
GlobTexts == {TextDebugStar, TextAStarB, TextAbcX}

CmdDebugTrace ==
  <<"d", "e", "b", "u", "g", "_", "t", "r", "a", "c", "e", " ", "-", "-", "l", "e", "v", "e", "l", "=", "2">>
CmdDebugOnly == <<"d", "e", "b", "u", "g", "_">>
CmdDebug == <<"d", "e", "b", "u", "g">>
CmdDebugCap == <<"D", "e", "b", "u", "g", "_", "x">>
CmdAb == <<"a", "b">>
CmdAxb == <<"a", "x", "b">>
CmdASpB == <<"a", " ", "b">>
CmdAxSpB == <<"a", "x", " ", "b">>
CmdAbSpB == <<"a", "b", " ", "b">>
CmdAx == <<"a", "x">>
CmdBx == <<"b", "x">>
CmdCxArg == <<"c", "x", " ", "a", "r", "g">>
CmdDx == <<"d", "x">>

\* the commands queried against the wildcard files
GlobCommands ==
  {CmdDebugTrace, CmdDebugOnly, CmdDebug, CmdDebugCap, CmdAb, CmdAxb, CmdASpB,
   CmdAxSpB, CmdAbSpB, CmdAx, CmdBx, CmdCxArg, CmdDx}

\* the argument vectors of the minimal tracker (without the program name):
\* none, --help, --debug alone, commands of the skip set, commands that
\* are logged, with and without --debug, and a blank argument
MinimalArgvs ==
  { <<>>, <<OptHelp>>, <<OptDebug>>, <<OptHelp, CmdVim>>,
    << <<"l", "s">> >>, <<PCd, <<"/", "t", "m", "p">> >>,
    <<CmdVim>>, <<OptDebug, CmdVim>>, <<CmdFoo>>, <<CmdTestX>>,
    <<CmdVim, CmdFoo>>, <<CmdBlank>>, <<OptDebug, CmdBlank>>,
    <<CmdEmpty, CmdEmpty>> }

\* the values of WAKATERM_DEBUG: not set, and "1"
EnvUnset == <<>>
EnvOne == <<"1">>
DebugValues == {EnvUnset, EnvOne}

\* the texts the file holds when the engine is constructed
InitTexts == {TextNotFooFirst, TextDup, TextClass, TextMixed}
\* the texts a user's edit leaves in the file
EditTexts == {TextCdNotCd, TextBad}

(***************************************************************************)
(* State                                                                   *)
(***************************************************************************)
VARIABLES
  fs,           \* the pattern file
  clock,        \* the latest modification time handed out
  constructed,  \* the CommandIgnoreFilter instance exists
  eng,          \* its fields
  log,          \* the commands appended to the day's log file
  relays,       \* the commands handed to wakatime-cli, with the length of
                \* the log at that time
  environ,      \* the value of WAKATERM_DEBUG in the process environment
  last          \* the latest step: operation, argument and outcome

vars == <<fs, clock, constructed, eng, log, relays, environ, last>>

FileOk(f) == f.exists /\ ~ReadRaises(f) /\ f.writable

\* r: what the operation reports (raised, failed, parsed, created) and
\* what it printed to the error stream (stderr);
\* ctx: what the step directly follows, where a property needs it
Step(op, arg, result, list, r, ctx) ==
  [op |-> op, arg |-> arg, result |-> result, list |-> list,
   raised |-> r.raised, failed |-> r.failed, parsed |-> r.parsed,
   created |-> r.created, stderr |-> r.stderr, ctx |-> ctx]

Quiet ==
  [raised |-> FALSE, failed |-> FALSE, parsed |-> FALSE, created |-> FALSE,
   stderr |-> <<>>]

NoCtx == <<>>
\* an edit that changed the modification time, with nothing but such edits
\* since the latest should_ignore
AfterSI == <<"after should_ignore">>
\* a should_ignore that directly follows such an edit
AfterEdit == <<"after edit">>

\* the process starts with WAKATERM_DEBUG set to one of envs
InitWith(envs) ==
  /\ fs \in {NoFile(TRUE), NoFile(FALSE)}
            \cup {[exists |-> TRUE, content |-> t, mtime |-> 1,
                   readable |-> TRUE, writable |-> TRUE] : t \in InitTexts}
  /\ clock = 1
  /\ constructed = FALSE
  /\ eng = NewEngine
  /\ log = <<>>
  /\ relays = <<>>
  /\ environ \in envs
  /\ last = Step("init", <<>>, FALSE, <<>>, Quiet, NoCtx)

\* WAKATERM_DEBUG is not set
Init == InitWith({EnvUnset})

\* WAKATERM_DEBUG is set or not
InitDebug == InitWith(DebugValues)

MaxClock == 1 + MaxWrites

(***************************************************************************)
(* The operations of the engine                                            *)
(***************************************************************************)
\* CommandIgnoreFilter(path)
Construct ==
  /\ ~constructed
  /\ \E r \in {LoadPatterns(fs, NewEngine, clock, environ)} :
        /\ r.clock <= MaxClock
        /\ fs' = r.fs /\ eng' = r.eng /\ clock' = r.clock
        /\ last' = Step("construct", <<>>, FALSE, <<>>, r, NoCtx)
  /\ constructed' = TRUE
  /\ UNCHANGED <<log, relays, environ>>

ShouldIgnore(command) ==
  /\ constructed
  /\ \E r \in {ShouldIgnoreOp(fs, eng, clock, command, environ)} :
        /\ r.clock <= MaxClock
        /\ fs' = r.fs /\ eng' = r.eng /\ clock' = r.clock
        /\ last' = Step("should_ignore", command, r.result, <<>>, r,
                        IF last.op = "edit" /\ last.ctx = AfterSI
                        THEN AfterEdit ELSE NoCtx)
  /\ UNCHANGED <<constructed, log, relays, environ>>

AddPattern(pattern) ==
  /\ constructed
  /\ \E r \in {AddPatternOp(fs, eng, clock, pattern, environ)} :
        /\ r.clock <= MaxClock
        /\ fs' = r.fs /\ eng' = r.eng /\ clock' = r.clock
        /\ last' = Step("add_pattern", pattern, FALSE, <<>>, r, NoCtx)
  /\ UNCHANGED <<constructed, log, relays, environ>>

RemovePattern(pattern) ==
  /\ constructed
  /\ \E r \in {RemovePatternOp(fs, eng, clock, pattern, environ)} :
        /\ r.clock <= MaxClock
        /\ fs' = r.fs /\ eng' = r.eng /\ clock' = r.clock
        /\ last' = Step("remove_pattern", pattern, r.result, <<>>, r, NoCtx)
  /\ UNCHANGED <<constructed, log, relays, environ>>

ListPatterns ==
  /\ constructed
  /\ \E r \in {ListPatternsOp(fs, eng, clock, environ)} :
        /\ r.clock <= MaxClock
        /\ fs' = r.fs /\ eng' = r.eng /\ clock' = r.clock
        /\ last' = Step("list_patterns", <<>>, FALSE, r.list, r,
                        IF last.op = "add_pattern" /\ FileOk(fs)
                        THEN last.arg ELSE NoCtx)
  /\ UNCHANGED <<constructed, log, relays, environ>>

\* should_ignore_command(command): its engine is local to the call
ShouldIgnoreCommand(command) ==
  /\ \E r \in {ShouldIgnoreCommandOp(fs, clock, command, environ)} :
        /\ r.clock <= MaxClock
        /\ fs' = r.fs /\ clock' = r.clock
        /\ last' = Step("should_ignore_command", command, r.result, <<>>, r,
                        NoCtx)
  /\ UNCHANGED <<constructed, eng, log, relays, environ>>

\* TerminalTracker.track_command(command)
TrackCommand(command) ==
  /\ constructed
  /\ Len(log) < MaxLog
  /\ \E cwd_ok \in BOOLEAN, log_ok \in BOOLEAN, cli \in RelayOutcomes :
       \E r \in {TrackCommandOp(log, relays, command, cwd_ok, log_ok, cli)} :
          /\ log' = r.log /\ relays' = r.relays
          /\ last' = Step("track_command", command, FALSE, <<>>,
                          [Quiet EXCEPT !.raised = r.raised], NoCtx)
  /\ UNCHANGED <<fs, clock, constructed, eng, environ>>

\* wakaterm_minimal.py run with the arguments args
TrackMinimal(args) ==
  /\ Len(log) < MaxLog
  /\ \E project_ok \in BOOLEAN, log_ok \in BOOLEAN, cli \in RelayOutcomes :
       \E r \in {MinimalTrackOp(log, relays, args, project_ok, log_ok, cli)} :
          /\ log' = r.log /\ relays' = r.relays
          /\ last' = Step("minimal", Join(args), FALSE, <<>>,
                          [Quiet EXCEPT !.raised = r.raised,
                                        !.failed = r.failed], NoCtx)
  /\ UNCHANGED <<fs, clock, constructed, eng, environ>>

(***************************************************************************)
(* The user and other processes                                            *)
(***************************************************************************)
\* the file is written with text t; keep: the modification time is
\* preserved (the editor restores it, or the write falls in the same
\* timestamp granule)
ExternalEdit(t, keep) ==
  /\ constructed
  /\ keep => fs.exists
  /\ ~keep => clock < MaxClock
  /\ t # fs.content
  /\ fs' = [fs EXCEPT !.exists = TRUE, !.content = t,
                      !.mtime = IF keep THEN @ ELSE clock + 1]
  /\ clock' = IF keep THEN clock ELSE clock + 1
  /\ last' = Step("edit", <<>>, FALSE, <<>>, Quiet,
                  IF ~keep /\ (last.op = "should_ignore"
                               \/ (last.op = "edit" /\ last.ctx = AfterSI))
                  THEN AfterSI ELSE NoCtx)
  /\ UNCHANGED <<constructed, eng, log, relays, environ>>

ExternalDelete ==
  /\ constructed
  /\ fs.exists
  /\ fs' = NoFile(fs.writable)
  /\ last' = Step("delete", <<>>, FALSE, <<>>, Quiet, NoCtx)
  /\ UNCHANGED <<clock, constructed, eng, log, relays, environ>>

\* chmod of the file (r, w) or, while the file is missing, of its
\* directory (w)
Chmod(r, w) ==
  /\ constructed
  /\ <<r, w>> # <<fs.readable, fs.writable>>
  /\ fs.exists \/ r = fs.readable
  /\ fs' = [fs EXCEPT !.readable = r, !.writable = w]
  /\ last' = Step("chmod", <<>>, FALSE, <<>>, Quiet, NoCtx)
  /\ UNCHANGED <<clock, constructed, eng, log, relays, environ>>

Environment ==
  \/ \E t \in EditTexts, keep \in BOOLEAN : ExternalEdit(t, keep)
  \/ ExternalDelete
  \/ \E r \in BOOLEAN, w \in BOOLEAN : Chmod(r, w)

\* the engine and the environment
Next ==
  \/ Construct
  \/ \E c \in Commands : ShouldIgnore(c)
  \/ \E p \in PatternArgs : AddPattern(p)
  \/ \E p \in PatternArgs : RemovePattern(p)
  \/ ListPatterns
  \/ Environment

Spec == Init /\ [][Next]_vars

\* the engine and an environment in which every edit changes the
\* modification time
NextNewMtime ==
  \/ Construct
  \/ \E c \in SomeCommands : ShouldIgnore(c)
  \/ \E p \in PatternArgs : AddPattern(p)
  \/ \E p \in PatternArgs : RemovePattern(p)
  \/ ListPatterns
  \/ \E t \in EditTexts : ExternalEdit(t, FALSE)
  \/ ExternalDelete
  \/ \E r \in BOOLEAN, w \in BOOLEAN : Chmod(r, w)

SpecNewMtime == Init /\ [][NextNewMtime]_vars

\* the same in a process started with or without WAKATERM_DEBUG
SpecDebug == InitDebug /\ [][NextNewMtime]_vars

\* the convenience function, which constructs an engine at every call
NextFresh ==
  \/ Construct
  \/ \E c \in Commands : ShouldIgnoreCommand(c)
  \/ Environment

SpecFresh == Init /\ [][NextFresh]_vars

\* an engine constructed on a pattern file with wildcards, which the user
\* replaces by another one
InitGlob ==
  /\ fs \in {[exists |-> TRUE, content |-> t, mtime |-> 1,
               readable |-> TRUE, writable |-> TRUE] : t \in GlobTexts}
  /\ clock = 1
  /\ constructed = FALSE
  /\ eng = NewEngine
  /\ log = <<>>
  /\ relays = <<>>
  /\ environ = EnvUnset
  /\ last = Step("init", <<>>, FALSE, <<>>, Quiet, NoCtx)

NextGlob ==
  \/ Construct
  \/ \E c \in GlobCommands : ShouldIgnore(c)
  \/ \E t \in GlobTexts : ExternalEdit(t, FALSE)

SpecGlob == InitGlob /\ [][NextGlob]_vars

\* the engine with remove_pattern called on any text
NextRemove ==
  \/ Construct
  \/ \E c \in SomeCommands : ShouldIgnore(c)
  \/ \E p \in PatternArgs : AddPattern(p)
  \/ \E p \in RemoveArgs : RemovePattern(p)
  \/ ListPatterns

SpecRemove == Init /\ [][NextRemove]_vars

\* the minimal tracker, run once per command
NextMinimal == \E args \in MinimalArgvs : TrackMinimal(args)

SpecMinimal == Init /\ [][NextMinimal]_vars

\* the tracker next to the engine
NextTrack ==
  \/ Construct
  \/ \E c \in Commands : ShouldIgnore(c)
  \/ \E c \in Commands : TrackCommand(c)
  \/ \E t \in EditTexts : ExternalEdit(t, FALSE)

SpecTrack == Init /\ [][NextTrack]_vars

(***************************************************************************)
(* Properties                                                              *)
(***************************************************************************)
NonBlank(command) == Strip(command) # <<>>

\* some pattern of a compiled list matches the trimmed command
AnyMatch(compiled, command) ==
  \E i \in 1..Len(compiled) : ReMatch(compiled[i], Strip(command))

InSeq(x, seq) == \E i \in 1..Len(seq) : seq[i] = x

\* the pattern uses none of the wildcards *, ? and [...]
NoWildcards(pattern) ==
  \A i \in 1..Len(pattern) : pattern[i] \notin {"*", "?", "[", "]"}

\* C1: negation always wins.  Whenever should_ignore has answered for a
\* non-blank command that one of the compiled ignore patterns and one of the
\* compiled negation patterns match, the answer is false.
NegationAlwaysWins ==
  (/\ last.op = "should_ignore"
   /\ NonBlank(last.arg)
   /\ AnyMatch(eng.compiled, last.arg)
   /\ AnyMatch(eng.compiled_negation, last.arg))
  => last.result = FALSE

\* the negation line precedes the ignore lines in the file, and one ignore
\* pattern and one negation pattern match "foo"
NegationWinsReached ==
  /\ last.op = "should_ignore"
  /\ last.arg = CmdFoo
  /\ fs.exists /\ fs.content = TextNotFooFirst
  /\ eng.negation_patterns = << <<"f", "o", "o">> >>
  /\ AnyMatch(eng.compiled, last.arg)
  /\ AnyMatch(eng.compiled_negation, last.arg)
  /\ last.result = FALSE

\* C2 as stated: whenever a wildcard-free ignore pattern is loaded and the
\* first token of the non-blank command equals it, should_ignore answers
\* true.
FirstTokenIgnored ==
  (/\ last.op = "should_ignore"
   /\ NonBlank(last.arg)
   /\ \E i \in 1..Len(eng.patterns) :
        NoWildcards(eng.patterns[i]) /\ FirstToken(last.arg) = eng.patterns[i])
  => last.result = TRUE

\* C2 amended: ... and no compiled negation pattern matches the command.
FirstTokenIgnoredUnlessNegated ==
  (/\ last.op = "should_ignore"
   /\ NonBlank(last.arg)
   /\ \E i \in 1..Len(eng.patterns) :
        NoWildcards(eng.patterns[i]) /\ FirstToken(last.arg) = eng.patterns[i]
   /\ ~AnyMatch(eng.compiled_negation, last.arg))
  => last.result = TRUE

\* "cd" is loaded, "cd /tmp" is queried and ignored
FirstTokenIgnoredReached ==
  /\ last.op = "should_ignore"
  /\ last.arg = CmdCdTmp
  /\ InSeq(PCd, eng.patterns)
  /\ ~AnyMatch(eng.compiled_negation, last.arg)
  /\ last.result = TRUE

\* what the uncommented lines of the default file ignore: a first token
\* that is one of the nine names, or begins with test, tmp or debug_
DefaultNames ==
  { <<"c", "d">>, <<"p", "w", "d">>, <<"l", "s">>, <<"l", "l">>, <<"l", "a">>,
    <<"c", "l", "e", "a", "r">>, <<"e", "x", "i", "t">>,
    <<"l", "o", "g", "o", "u", "t">>, <<"h", "i", "s", "t", "o", "r", "y">> }

DefaultPrefixes ==
  { <<"t", "e", "s", "t">>, <<"t", "m", "p">>, <<"d", "e", "b", "u", "g", "_">> }

DefaultIgnores(command) ==
  LET token == LowerText(FirstToken(command))
  IN \/ token \in DefaultNames
     \/ \E p \in DefaultPrefixes :
          Len(token) >= Len(p) /\ SubSeq(token, 1, Len(p)) = p

FreshDecision(f, command) ==
  IF ReadRaises(f) THEN FALSE
  ELSE LET p == ParseFile(f.content)
       IN Decide(CompileList(p.patterns), CompileList(p.negation_patterns),
                 Strip(command))

\* C4: live reload.  A should_ignore that follows an edit of the file with
\* a new modification time, itself made after an earlier should_ignore on
\* the same engine, answers from the new content only: the lists are the
\* parse of the new content and the answer is the one it calls for.
LiveReload ==
  (/\ last.op = "should_ignore"
   /\ last.ctx = AfterEdit
   /\ NonBlank(last.arg))
  => /\ last.result = FreshDecision(fs, last.arg)
     /\ ~ReadRaises(fs) =>
          /\ eng.patterns = ParseFile(fs.content).patterns
          /\ eng.negation_patterns = ParseFile(fs.content).negation_patterns

\* after the edit to "cd\n!cd\n" the pattern foo* of the earlier content no
\* longer applies and the added negation !cd does
LiveReloadReached ==
  /\ last.op = "should_ignore"
  /\ last.ctx = AfterEdit
  /\ last.parsed
  /\ fs.content = TextCdNotCd
  /\ last.arg = CmdCdTmp
  /\ last.result = FALSE
  /\ eng.patterns = <<PCd>>

\* C5: two consecutive should_ignore calls on the same command, with no
\* step of the user or of another process between them, give the same
\* answer, and the second neither parses the file nor changes the engine.
ShouldIgnoreIdempotent ==
  [][(/\ last.op = "should_ignore"
      /\ last'.op = "should_ignore"
      /\ last'.arg = last.arg)
     => (/\ last'.result = last.result
         /\ ~last'.parsed
         /\ eng' = eng)]_vars

\* C6: no operation of the engine lets an exception out.
NothingPropagates ==
  last.op \in {"construct", "should_ignore", "add_pattern", "remove_pattern",
               "list_patterns"}
  => ~last.raised

\* add_pattern has run against a file it cannot write, remove_pattern
\* against one it cannot read, a load has failed
NothingPropagatesReached ==
  \/ last.op = "add_pattern" /\ ~fs.writable
  \/ last.op = "remove_pattern" /\ fs.exists /\ ReadRaises(fs)
  \/ last.op \in {"should_ignore", "list_patterns"} /\ last.failed

\* C7: after a load that raised while reading the file, the two pattern
\* lists and the two compiled lists are empty, and the should_ignore that
\* triggered it answers false for a non-blank command.
FailedLoadTracksEverything ==
  (last.op \in {"construct", "should_ignore", "add_pattern", "remove_pattern",
                "list_patterns"} /\ last.failed)
  => /\ eng.patterns = <<>>
     /\ eng.negation_patterns = <<>>
     /\ eng.compiled = <<>>
     /\ eng.compiled_negation = <<>>
     /\ (last.op = "should_ignore" /\ NonBlank(last.arg)) => last.result = FALSE

\* the file names cd but does not decode: "cd /tmp" is tracked
FailedLoadReached ==
  /\ last.op = "should_ignore"
  /\ last.failed
  /\ last.arg = CmdCdTmp
  /\ fs.exists /\ fs.content = TextBad
  /\ InSeq(PCd, ParseFile(fs.content).patterns)
  /\ last.result = FALSE

\* C8: track_command neither logs nor relays a command that the engine's
\* should_ignore reports as ignored.
IgnoredCommandsAreNotTracked ==
  [][(/\ last'.op = "track_command"
      /\ ShouldIgnoreOp(fs, eng, clock, last'.arg, environ).result)
     => (log' = log /\ relays' = relays)]_vars

\* C9: add_pattern("foo*") or add_pattern("!foo") on a file that is
\* readable and writable, directly followed by list_patterns: the list
\* contains the text that was added.
AddThenListContains ==
  (last.op = "list_patterns" /\ last.ctx \in {PFooStar, PNotFoo})
  => InSeq(last.ctx, last.list)

\* "!foo" was added to the file that ends without a newline, and is listed
AddThenListReached ==
  /\ last.op = "list_patterns"
  /\ last.ctx = PNotFoo
  /\ fs.content = TextDup \o <<NL>> \o PNotFoo \o <<NL>>
  /\ InSeq(PNotFoo, last.list)

\* the lines without the first one that remove_pattern matches
RECURSIVE DropFirstMatch(_, _)
DropFirstMatch(lines, pattern) ==
  IF lines = <<>> THEN <<>>
  ELSE IF Strip(Head(lines)) \in {pattern, <<"!">> \o pattern}
       THEN Tail(lines)
       ELSE <<Head(lines)>> \o DropFirstMatch(Tail(lines), pattern)

IsMatchingLine(line, pattern) ==
  Strip(line) = pattern \/ Strip(line) = <<"!">> \o pattern

BlankAlwaysIgnored ==
  [][(last'.op = "should_ignore" /\ ~NonBlank(last'.arg))
     => (/\ last'.result = TRUE
         /\ fs' = fs /\ eng' = eng)]_vars

\* a blank command was answered while the file is missing and the engine
\* still holds the patterns of the deleted file, or right after a failed
\* load
BlankAlwaysIgnoredReached ==
  /\ last.op = "should_ignore"
  /\ last.arg \in {CmdBlank, CmdEmpty}
  /\ last.result = TRUE
  /\ \/ ~fs.exists /\ eng.patterns # <<>>
     \/ fs.exists /\ ReadRaises(fs) /\ eng.patterns = <<>>

\* the command, compared without regard to case, is P or begins with P
\* followed by a whitespace character
AnchoredPrefix(P, command) ==
  LET c == LowerText(command)
      p == LowerText(P)
  IN /\ Len(c) >= Len(p)
     /\ SubSeq(c, 1, Len(p)) = p
     /\ Len(c) = Len(p) \/ IsSpace(c[Len(p) + 1])

\* C12: anchored prefix-of-token matching.  For a should_ignore on a
\* non-blank command C, a loaded wildcard-free pattern P matches C only if
\* the trimmed C is P or begins with P followed by whitespace; and the
\* answer is true only if some loaded pattern has a wildcard or stands in
\* that relation to C.
IgnoredOnlyAtTokenBoundary ==
  (last.op = "should_ignore" /\ NonBlank(last.arg))
  => /\ \A i \in 1..Len(eng.patterns) :
          (/\ NoWildcards(eng.patterns[i])
           /\ AnyMatch(CompileList(<<eng.patterns[i]>>), last.arg))
          => AnchoredPrefix(eng.patterns[i], Strip(last.arg))
     /\ last.result
          => \E i \in 1..Len(eng.patterns) :
                \/ ~NoWildcards(eng.patterns[i])
                \/ AnchoredPrefix(eng.patterns[i], Strip(last.arg))

\* "cd" is the only loaded pattern that begins like "cdx", and "cdx" is
\* not ignored
TokenBoundaryReached ==
  /\ last.op = "should_ignore"
  /\ last.arg = CmdCdx
  /\ InSeq(PCd, eng.patterns)
  /\ eng.compiled # <<>>
  /\ last.result = FALSE

\* C13: when none of the loaded ignore patterns matches a non-blank
\* command, should_ignore answers false, whatever the negation patterns.
UnmatchedIsTracked ==
  (/\ last.op = "should_ignore"
   /\ NonBlank(last.arg)
   /\ ~AnyMatch(CompileList(eng.patterns), last.arg))
  => last.result = FALSE

\* the negation pattern foo matches "foo", no ignore pattern does, and
\* "foo" is tracked
UnmatchedIsTrackedReached ==
  /\ last.op = "should_ignore"
  /\ last.arg = CmdFoo
  /\ eng.patterns # <<>>
  /\ ~AnyMatch(CompileList(eng.patterns), last.arg)
  /\ AnyMatch(eng.compiled_negation, last.arg)
  /\ last.result = FALSE

\* what a caller and a later operation can observe of an operation: the
\* file, the fields of the engine, the value returned
Observable(r, result, list) ==
  [fs |-> r.fs, eng |-> r.eng, result |-> result, list |-> list]

\* the operation op(arg) applied to file f and engine e in a process whose
\* WAKATERM_DEBUG is env
Replay(op, arg, f, e, c, env) ==
  CASE op = "construct" ->
         Observable(LoadPatterns(f, NewEngine, c, env), FALSE, <<>>)
    [] op = "should_ignore" ->
         LET r == ShouldIgnoreOp(f, e, c, arg, env)
         IN Observable(r, r.result, <<>>)
    [] op = "add_pattern" ->
         Observable(AddPatternOp(f, e, c, arg, env), FALSE, <<>>)
    [] op = "remove_pattern" ->
         LET r == RemovePatternOp(f, e, c, arg, env)
         IN Observable(r, r.result, <<>>)
    [] op = "list_patterns" ->
         LET r == ListPatternsOp(f, e, c, env)
         IN Observable(r, FALSE, r.list)

EngineOps ==
  {"construct", "should_ignore", "add_pattern", "remove_pattern",
   "list_patterns"}

\* C14: WAKATERM_DEBUG changes what is printed and nothing else.  Every
\* operation of the engine, taken from any reachable state, leaves the same
\* file and the same engine and returns the same value as it would with
\* any other value of WAKATERM_DEBUG; the operations being deterministic,
\* two runs of one sequence of operations on the same file, with and
\* without WAKATERM_DEBUG, therefore agree at every step.
DebugChangesOnlyLogging ==
  [][last'.op \in EngineOps
     => \A env \in DebugValues \ {environ} :
          Replay(last'.op, last'.arg, fs, eng, clock, env)
            = [fs |-> fs', eng |-> eng', result |-> last'.result,
               list |-> last'.list]]_vars

\* with WAKATERM_DEBUG=1 a load failed and said so on the error stream,
\* and the lists were emptied as they are without it
DebugChangesOnlyLoggingReached ==
  /\ DebugEnabled(environ)
  /\ last.op = "should_ignore"
  /\ last.failed
  /\ last.stderr = <<"Error loading ignore patterns">>
  /\ eng.patterns = <<>> /\ eng.compiled = <<>>

\* the entries of a list written one per line
OnePerLine(list) ==
  Concat([i \in 1..Len(list) |-> Append(list[i], NL)])

\* a new file with the given text
FreshFile(text) ==
  [exists |-> TRUE, content |-> text, mtime |-> clock + 1,
   readable |-> TRUE, writable |-> TRUE]

\* the engine holds the lines of the file as it is now
InSync ==
  /\ fs.exists /\ ~ReadRaises(fs)
  /\ eng.last_mtime = fs.mtime
  /\ eng.patterns = ParseFile(fs.content).patterns
  /\ eng.negation_patterns = ParseFile(fs.content).negation_patterns

\* C15: the format round-trips through list_patterns.  When list_patterns
\* returns the entries of a readable file, these entries written one per
\* line into a new file and loaded by a new engine give the same list, and
\* the same answer of should_ignore for every command.
ListRoundTrips ==
  (last.op = "list_patterns" /\ InSync)
  => LET again == ListPatternsOp(FreshFile(OnePerLine(last.list)), NewEngine,
                                 clock + 1, environ)
     IN /\ again.list = last.list
        /\ \A c \in Commands :
              ShouldIgnoreOp(again.fs, again.eng, again.clock, c, environ).result
                = ShouldIgnoreOp(fs, eng, clock, c, environ).result

\* the list of "cd\nfoo*\n !cd \n# cd\ncd": the negation, which stands
\* between the ignore lines in the file, is listed last
ListRoundTripsReached ==
  /\ last.op = "list_patterns"
  /\ InSync
  /\ fs.content = TextDup
  /\ last.list = <<PCd, PFooStar, PCd, <<"!", "c", "d">> >>

\* list_patterns has read the default file
ListRoundTripsDefaultReached ==
  /\ last.op = "list_patterns"
  /\ InSync
  /\ fs.content = DefaultContent
  /\ Len(last.list) = 12

\* C16: a load that finds the file missing returns with empty pattern
\* lists.  The loads are those of the constructor, of should_ignore on a
\* non-blank command and of list_patterns (add_pattern creates the file
\* before it loads, remove_pattern returns before it loads).
MissingFileLeavesEmptySets ==
  [][(/\ last'.op \in {"construct", "should_ignore", "list_patterns"}
      /\ last'.op = "should_ignore" => NonBlank(last'.arg)
      /\ ~fs.exists)
     => (/\ eng'.patterns = <<>>
         /\ eng'.negation_patterns = <<>>)]_vars

\* C17: cache coherence.  After every operation of the engine, if the file
\* exists, can be read and has the modification time the engine recorded,
\* the two lists are the parse of the file.
CacheCoherent ==
  (/\ last.op \in EngineOps
   /\ fs.exists /\ ~ReadRaises(fs)
   /\ eng.last_mtime = fs.mtime)
  => /\ eng.patterns = ParseFile(fs.content).patterns
     /\ eng.negation_patterns = ParseFile(fs.content).negation_patterns

\* some line of the text, trimmed, is the pattern or "!" and the pattern
HasMatchingLine(text, pattern) ==
  LET lines == ReadLines(text)
  IN \E i \in 1..Len(lines) : IsMatchingLine(lines[i], pattern)

\* C18 as stated: remove_pattern(p) returns true exactly when the file
\* exists and holds a line that matches p; when it returns false because
\* the file is missing or no line matches, the file and the engine are
\* unchanged.
RemoveTrueIffMatch ==
  [][last'.op = "remove_pattern"
     => (/\ last'.result
              <=> (fs.exists /\ HasMatchingLine(fs.content, last'.arg))
         /\ (~last'.result
              /\ (~fs.exists \/ ~HasMatchingLine(fs.content, last'.arg)))
             => (fs' = fs /\ eng' = eng))]_vars

\* C18 amended: remove_pattern(p) returns true exactly when the file
\* exists, can be read and rewritten, and holds a line that matches p; when
\* it returns false because the file is missing or no line matches, the
\* file and the engine are unchanged.
RemoveTrueIffRewritten ==
  [][last'.op = "remove_pattern"
     => (/\ last'.result
              <=> (/\ fs.exists /\ ~ReadRaises(fs) /\ fs.writable
                   /\ HasMatchingLine(fs.content, last'.arg))
         /\ (~last'.result
              /\ (~fs.exists \/ ~HasMatchingLine(fs.content, last'.arg)))
             => (fs' = fs /\ eng' = eng))]_vars

\* remove_pattern has returned false on a missing file whose directory is
\* writable, in an engine that holds the patterns of the deleted file:
\* no default file was written and the engine kept its lists
RemoveFalseReached ==
  /\ last.op = "remove_pattern"
  /\ ~last.result
  /\ ~fs.exists /\ fs.writable
  /\ eng.patterns # <<>>

\* the lines of a text that are neither blank nor comments, trimmed
ActiveLines(text) ==
  LET stripped == [i \in 1..Len(ReadLines(text)) |-> Strip(ReadLines(text)[i])]
  IN SelectSeq(stripped, LAMBDA l : l # <<>> /\ ~StartsWith(l, "#"))

\* the files made of the given lines in every order
Reorderings(lines) ==
  { OnePerLine([i \in 1..Len(lines) |-> lines[pi[i]]]) :
      pi \in Permutations(1..Len(lines)) }

\* C19: the order of the lines has no effect.  The answer of should_ignore
\* from a loaded file is the answer that a new engine gives from any file
\* made of the same non-blank, non-comment lines in another order.
OrderIsIrrelevant ==
  (/\ last.op = "should_ignore"
   /\ NonBlank(last.arg)
   /\ InSync
   /\ Len(ActiveLines(fs.content)) <= MaxPermuted)
  => \A text \in Reorderings(ActiveLines(fs.content)) :
        ShouldIgnoreCommandOp(FreshFile(text), clock + 1, last.arg, environ).result
          = last.result

\* "!foo" stands before "foo*" in the file and still overrides it
OrderIsIrrelevantReached ==
  /\ last.op = "should_ignore"
  /\ InSync
  /\ fs.content = TextNotFooFirst
  /\ last.arg = CmdFoo
  /\ last.result = FALSE
  /\ Cardinality(Reorderings(ActiveLines(fs.content))) = 6

\* the regular expression made from the pattern compiles
Compiles(pattern) == ReCompile(PatternToRegex(pattern)).ok = "ok"

\* the pattern compiles and matches the trimmed command
ValidMatch(pattern, command) ==
  /\ Compiles(pattern)
  /\ ReMatch(ReCompile(PatternToRegex(pattern)).atoms, Strip(command))

HasInvalid(pats) == \E i \in 1..Len(pats) : ~Compiles(pats[i])

\* C20: a pattern that does not compile is skipped and the others apply.
\* An operation that reads a file with such a pattern does not fail: the
\* lists are the parse of the file.  And when the engine holds such a
\* pattern, should_ignore answers true for every command that one of the
\* valid ignore patterns matches and none of the valid negations does.
InvalidPatternIsSkipped ==
  /\ (/\ last.op \in EngineOps
      /\ last.parsed
      /\ HasInvalid(ParseFile(fs.content).patterns
                     \o ParseFile(fs.content).negation_patterns))
     => /\ ~last.failed
        /\ eng.patterns = ParseFile(fs.content).patterns
        /\ eng.negation_patterns = ParseFile(fs.content).negation_patterns
  /\ (/\ last.op = "should_ignore"
      /\ NonBlank(last.arg)
      /\ HasInvalid(eng.patterns \o eng.negation_patterns)
      /\ \E i \in 1..Len(eng.patterns) :
           ValidMatch(eng.patterns[i], last.arg)
      /\ ~\E i \in 1..Len(eng.negation_patterns) :
            ValidMatch(eng.negation_patterns[i], last.arg))
     => last.result = TRUE

\* the file is "foo*\n[c]d\nvim\n!v[i]m\n": [c]d is skipped, and vim, the
\* line after it, ignores "vim"
InvalidPatternIsSkippedReached ==
  /\ last.op = "should_ignore"
  /\ last.arg = CmdVim
  /\ fs.exists /\ fs.content = TextClass
  /\ eng.patterns = <<PFooStar, <<"[", "c", "]", "d">>, <<"v", "i", "m">> >>
  /\ Len(eng.compiled) = 2
  /\ last.result = TRUE

\* the trimmed lines of a text
StrippedLines(text) ==
  LET lines == ReadLines(text)
  IN [i \in 1..Len(lines) |-> Strip(lines[i])]

\* the entries that the lines of a text stand for: the lines that are not
\* blank and begin with neither "#" nor "!", in their order, then "!" and
\* the trimmed remainder of the lines that begin with "!" and have one, in
\* their order
ListedEntries(text) ==
  LET ignores == SelectSeq(StrippedLines(text),
                   LAMBDA l : l # <<>> /\ l[1] \notin {"#", "!"})
      negs == SelectSeq(StrippedLines(text),
                LAMBDA l : l # <<>> /\ l[1] = "!" /\ Strip(Tail(l)) # <<>>)
  IN ignores \o [i \in 1..Len(negs) |-> <<"!">> \o Strip(Tail(negs[i]))]

\* C21: list_patterns after a fresh load.  When the load of list_patterns
\* has read the file, or list_patterns directly follows the constructor
\* whose load has read it, the list is made of the ignore lines of the file
\* in their order, followed by the negation lines in their order, each as
\* "!" and its pattern; comment lines, blank lines and a bare "!" give no
\* entry.
ListIsFileOrder ==
  [][(/\ last'.op = "list_patterns"
      /\ last'.parsed \/ (last.op = "construct" /\ last.parsed))
     => last'.list = ListedEntries(fs'.content)]_vars

\* the list of "# cd\n\n!\n! foo\nfoo*\ncd\n": the negation, which comes
\* first in the file, is listed last, and the comment, the blank line and
\* the bare "!" are not listed
ListIsFileOrderReached ==
  /\ last.op = "list_patterns"
  /\ fs.exists /\ fs.content = TextMixed
  /\ eng.last_mtime = fs.mtime
  /\ last.list = <<PFooStar, PCd, PNotFoo>>

\* list_patterns has itself read a file that was edited
ListIsFileOrderParsedReached ==
  /\ last.op = "list_patterns"
  /\ last.parsed
  /\ last.list = <<PCd, <<"!", "c", "d">> >>

\* the lines of a text without their terminating newline
RawLines(text) ==
  LET lines == ReadLines(text)
  IN [i \in 1..Len(lines) |->
        IF lines[i][Len(lines[i])] = NL
        THEN SubSeq(lines[i], 1, Len(lines[i]) - 1) ELSE lines[i]]

\* the lines of the second text are those of the first, unmodified and in
\* their order, followed by an empty line when the first text ended with a
\* newline, and by the pattern
OnlyAppended(before, after, pattern) ==
  RawLines(after) \in {RawLines(before) \o <<pattern>>,
                       RawLines(before) \o << <<>>, pattern >>}

\* what list_patterns returns from the current state
ListNow(f, e, c, env) == ListPatternsOp(f, e, c, env).list

Answer(f, e, c, command) == ShouldIgnoreOp(f, e, c, command, environ).result

\* the elements of a sequence
Range(seq) == {seq[i] : i \in 1..Len(seq)}

\* the decision that the two sets of patterns call for: some ignore pattern
\* that compiles matches the command, and no negation pattern that compiles
\* does
DecisionOfSets(ignores, negations, command) ==
  /\ \E q \in ignores : ValidMatch(q, command)
  /\ ~\E q \in negations : ValidMatch(q, command)

\* C23: repeated patterns are harmless.  An add_pattern(p), on an engine
\* that holds the lines of the file and already lists p, changes the answer
\* of should_ignore for no command; after any add_pattern(p), a second
\* add_pattern(p) changes the answer for no command; and the answers after
\* an add_pattern that wrote the file are those that the set of ignore
\* patterns and the set of negation patterns call for, however often a
\* pattern occurs.
RepeatedPatternsHarmless ==
  [][last'.op = "add_pattern"
     => (/\ (/\ InSync
              /\ InSeq(last'.arg, ListNow(fs, eng, clock, environ))
              /\ ~ReadRaises(fs'))
             => \A c \in Commands :
                   Answer(fs', eng', clock', c) = Answer(fs, eng, clock, c)
         /\ \A again \in {AddPatternOp(fs', eng', clock', last'.arg, environ)} :
               \A c \in Commands :
                  Answer(again.fs, again.eng, again.clock, c)
                    = Answer(fs', eng', clock', c)
         /\ \A c \in Commands :
               (fs.writable /\ NonBlank(c))
               => Answer(fs', eng', clock', c)
                    = DecisionOfSets(Range(eng'.patterns),
                                     Range(eng'.negation_patterns), c))]_vars

\* "foo*" was added to "!foo\nfoo*\ncd\n", which held it: it is listed
\* twice, the negation foo once, and "foo" is still tracked
RepeatedPatternsReached ==
  /\ last.op = "add_pattern"
  /\ last.arg = PFooStar
  /\ fs.content = TextNotFooFirst \o <<NL>> \o PFooStar \o <<NL>>
  /\ eng.patterns = <<PFooStar, PCd, PFooStar>>
  /\ eng.negation_patterns = << <<"f", "o", "o">> >>
  /\ ~Answer(fs, eng, clock, CmdFoo)

\* the pattern is X*Y with X and Y free of wildcards
OneStar(pattern) ==
  /\ Cardinality({i \in 1..Len(pattern) : pattern[i] = "*"}) = 1
  /\ \A i \in 1..Len(pattern) : pattern[i] \notin {"?", "[", "]", BS}

StarAt(pattern) == CHOOSE i \in 1..Len(pattern) : pattern[i] = "*"
BeforeStar(pattern) == SubSeq(pattern, 1, StarAt(pattern) - 1)
AfterStar(pattern) == SubSeq(pattern, StarAt(pattern) + 1, Len(pattern))

\* the command is X, a run of characters other than whitespace, Y, and then
\* ends or goes on with a whitespace character (letters compared without
\* regard to case)
StarMatches(X, Y, command) ==
  LET c == LowerText(command)
      x == LowerText(X)
      y == LowerText(Y)
  IN \E k \in 0..Len(c) :
        /\ Len(x) + k + Len(y) <= Len(c)
        /\ SubSeq(c, 1, Len(x)) = x
        /\ \A j \in Len(x) + 1..Len(x) + k : ~IsSpace(c[j])
        /\ SubSeq(c, Len(x) + k + 1, Len(x) + k + Len(y)) = y
        /\ \/ Len(x) + k + Len(y) = Len(c)
           \/ IsSpace(c[Len(x) + k + Len(y) + 1])

\* the command begins with X
BeginsWith(X, command) ==
  /\ Len(command) >= Len(X)
  /\ LowerText(SubSeq(command, 1, Len(X))) = LowerText(X)

\* C24: "*" stands for a run, possibly empty, of characters other than
\* whitespace.  For a should_ignore on a non-blank command: a loaded
\* pattern X*Y matches the trimmed command exactly when the command is X,
\* such a run, Y, and then ends or goes on with whitespace; a loaded ignore
\* pattern X* makes the answer true for every command that begins with X
\* when no negation matches; and the answer is true only if some loaded
\* ignore pattern matches in that sense or is not of the form X*Y.
StarIsNonSpaceRun ==
  (last.op = "should_ignore" /\ NonBlank(last.arg))
  => /\ \A i \in 1..Len(eng.patterns) :
          OneStar(eng.patterns[i])
          => (ValidMatch(eng.patterns[i], last.arg)
               <=> StarMatches(BeforeStar(eng.patterns[i]),
                               AfterStar(eng.patterns[i]), Strip(last.arg)))
     /\ (/\ \E i \in 1..Len(eng.patterns) :
               /\ OneStar(eng.patterns[i])
               /\ AfterStar(eng.patterns[i]) = <<>>
               /\ BeginsWith(BeforeStar(eng.patterns[i]), Strip(last.arg))
          /\ ~AnyMatch(eng.compiled_negation, last.arg))
        => last.result = TRUE
     /\ last.result
        => \E i \in 1..Len(eng.patterns) :
              \/ ~OneStar(eng.patterns[i])
              \/ StarMatches(BeforeStar(eng.patterns[i]),
                             AfterStar(eng.patterns[i]), Strip(last.arg))

\* with debug_* loaded, "debug_", where the run is empty, is ignored
StarIsNonSpaceRunReached ==
  /\ last.op = "should_ignore"
  /\ last.arg = CmdDebugOnly
  /\ eng.patterns = << <<"d", "e", "b", "u", "g", "_", "*">> >>
  /\ last.result = TRUE

\* with debug_* loaded, "debug_trace --level=2" is ignored
StarIgnoresDebugTraceReached ==
  /\ last.op = "should_ignore"
  /\ last.arg = CmdDebugTrace
  /\ eng.patterns = << <<"d", "e", "b", "u", "g", "_", "*">> >>
  /\ last.result = TRUE

\* with a*b loaded, "a b" is not ignored
StarStopsAtSpaceReached ==
  /\ last.op = "should_ignore"
  /\ last.arg = CmdASpB
  /\ eng.patterns = << <<"a", "*", "b">> >>
  /\ Len(eng.compiled) = 1
  /\ last.result = FALSE

PAbcX == <<"[", "a", "b", "c", "]", "x">>

\* C25: a character class is compiled into a working matcher.  With
\* [abc]x the only loaded pattern, it is compiled, and should_ignore
\* answers true exactly for the commands that are one of a, b, c followed
\* by x, and then end or go on with whitespace ("ax", "bx", "cx arg", and
\* not "dx").
CharClassWorks ==
  (/\ last.op = "should_ignore"
   /\ NonBlank(last.arg)
   /\ eng.patterns = <<PAbcX>>
   /\ eng.negation_patterns = <<>>)
  => /\ Len(eng.compiled) = 1
     /\ last.result
          = (\E ch \in {"a", "b", "c"} :
                AnchoredPrefix(<<ch, "x">>, Strip(last.arg)))

\* the first sequence is the beginning of the second
IsPrefix(a, b) == Len(a) <= Len(b) /\ SubSeq(b, 1, Len(a)) = a

\* the log after track_command(command) does not depend on what becomes of
\* the relay
LogIgnoresRelay(lg, rl, command) ==
  \A cwd_ok \in BOOLEAN, log_ok \in BOOLEAN :
    \A c1 \in RelayOutcomes, c2 \in RelayOutcomes :
       TrackCommandOp(lg, rl, command, cwd_ok, log_ok, c1).log
         = TrackCommandOp(lg, rl, command, cwd_ok, log_ok, c2).log

\* the log is append-only and independent of the relay: a track_command
\* leaves the earlier entries in place, appends at most one entry, which is
\* its command, at the end, and nothing for a blank command; the log it
\* leaves is the same whatever becomes of the relay; and when wakatime-cli
\* is started for a command, the entry of that command is already the last
\* one of the log.
LogAppendOnly ==
  [][last'.op = "track_command"
     => (/\ IsPrefix(log, log')
         /\ log' # log => (NonBlank(last'.arg) /\ log' = Append(log, last'.arg))
         /\ LogIgnoresRelay(log, relays, last'.arg)
         /\ IsPrefix(relays, relays')
         /\ \A i \in 1..Len(relays') :
               /\ relays'[i].logged \in 1..Len(log')
               /\ log'[relays'[i].logged] = relays'[i].command)]_vars

\* C26: the log is append-only and independent of the relay, as above, and
\* track_command never raises.
LogAppendOnlyNeverRaises ==
  [][last'.op = "track_command"
     => (/\ ~last'.raised
         /\ IsPrefix(log, log')
         /\ log' # log => (NonBlank(last'.arg) /\ log' = Append(log, last'.arg))
         /\ LogIgnoresRelay(log, relays, last'.arg)
         /\ IsPrefix(relays, relays')
         /\ \A i \in 1..Len(relays') :
               /\ relays'[i].logged \in 1..Len(log')
               /\ log'[relays'[i].logged] = relays'[i].command)]_vars

\* a second command was logged after one that was logged and not relayed
LogAppendOnlyReached ==
  /\ last.op = "track_command"
  /\ Len(log) = 2
  /\ log[2] = last.arg
  /\ Len(relays) = 1
  /\ relays[1].logged = 2

\* how often x occurs in a sequence
Occurrences(x, seq) == Cardinality({i \in 1..Len(seq) : seq[i] = x})

\* C27: every listed entry can be removed.  When list_patterns has returned
\* the entries of a file that can be read and written, and remove_pattern
\* is then called with one of these entries, it returns true and a
\* list_patterns directly after it returns the entry less often.
ListedEntryIsRemovable ==
  [][(/\ last.op = "list_patterns"
      /\ InSync /\ FileOk(fs)
      /\ last'.op = "remove_pattern"
      /\ InSeq(last'.arg, last.list))
     => (/\ last'.result
         /\ Occurrences(last'.arg, ListNow(fs', eng', clock', environ))
              < Occurrences(last'.arg, last.list))]_vars

\* the lines of a text that are blank or comments
InertLines(text) ==
  SelectSeq(ReadLines(text),
            LAMBDA l : Strip(l) = <<>> \/ StartsWith(Strip(l), "#"))

\* C28: remove_pattern only removes pattern lines.  Whenever
\* remove_pattern(p) returns true on an engine that holds the lines of the
\* file, for any text p, the list that list_patterns returns after the call
\* differs from the one it returned before, and the blank lines and the
\* comment lines of the file are all still there.
RemoveOnlyPatternLines ==
  [][(/\ last'.op = "remove_pattern"
      /\ last'.result
      /\ InSync)
     => (/\ ListNow(fs', eng', clock', environ) # ListNow(fs, eng, clock, environ)
         /\ InertLines(fs'.content) = InertLines(fs.content))]_vars

\* the decision of should_ignore from the patterns that the engine holds
Held(e, command) == Decide(e.compiled, e.compiled_negation, Strip(command))

AllCompile(e) == ~HasInvalid(e.patterns \o e.negation_patterns)

\* C29: the decision is monotone in the two sets of patterns.  For every
\* step that leaves a readable file, with every pattern held before and
\* after compiling, and every non-blank command: when the step adds ignore
\* patterns and leaves the set of negations as it was (add_pattern of an
\* ignore pattern), a command ignored before is ignored after; when it adds
\* negations and leaves the set of ignore patterns as it was (add_pattern
\* of a negation), a command tracked before is tracked after; when it
\* removes ignore patterns and leaves the negations as they were, a command
\* tracked before is tracked after.
DecisionIsMonotone ==
  [][(/\ constructed
      /\ fs'.exists /\ ~ReadRaises(fs')
      /\ AllCompile(eng) /\ AllCompile(eng'))
     => \A c \in Commands :
          NonBlank(c)
          => /\ (/\ Range(eng.patterns) \subseteq Range(eng'.patterns)
                 /\ Range(eng.negation_patterns) = Range(eng'.negation_patterns))
                => (Held(eng, c) => Held(eng', c))
             /\ (/\ Range(eng.patterns) = Range(eng'.patterns)
                 /\ Range(eng.negation_patterns)
                      \subseteq Range(eng'.negation_patterns))
                => (~Held(eng, c) => ~Held(eng', c))
             /\ (/\ Range(eng'.patterns) \subseteq Range(eng.patterns)
                 /\ Range(eng.negation_patterns) = Range(eng'.negation_patterns))
                => (~Held(eng, c) => ~Held(eng', c))]_vars

\* add_pattern("!foo") on "cd\nfoo*\n !cd \n# cd\ncd": the negation foo has
\* joined the negation cd, the ignore patterns are as before, and "foo",
\* which foo* ignored, is now tracked
DecisionIsMonotoneReached ==
  /\ last.op = "add_pattern"
  /\ last.arg = PNotFoo
  /\ fs.content = TextDup \o <<NL>> \o PNotFoo \o <<NL>>
  /\ eng.patterns = <<PCd, PFooStar, PCd>>
  /\ eng.negation_patterns = <<PCd, <<"f", "o", "o">> >>
  /\ ~Held(eng, CmdFoo)

\* add_pattern("foo*") has created the file: foo* is the only pattern, and
\* "foo", tracked before, is ignored
AddedIgnoreReached ==
  /\ last.op = "add_pattern"
  /\ last.arg = PFooStar
  /\ fs.content = <<NL>> \o PFooStar \o <<NL>>
  /\ eng.patterns = <<PFooStar>>
  /\ Held(eng, CmdFoo)

\* remove_pattern("foo*") on "!foo\nfoo*\ncd\n": the ignore pattern is gone,
\* the negation stays
RemovedIgnoreReached ==
  /\ last.op = "remove_pattern"
  /\ last.arg = PFooStar
  /\ last.result
  /\ eng.patterns = <<PCd>>
  /\ eng.negation_patterns = << <<"f", "o", "o">> >>

\* C30: the minimal tracker never ends with an uncaught error, whatever its
\* arguments: a run either returns without logging or appends one entry
\* to the log, and no exception leaves track_command.
MinimalNeverRaises ==
  [][last'.op = "minimal"
     => (/\ ~last'.raised
         /\ log' = log \/ (Len(log') = Len(log) + 1 /\ IsPrefix(log, log')))]_vars

====
